---- MODULE Spec2Model ----
(***************************************************************************)
(* The NPI lookup API route (pages/api/fetchNpi.ts, hardened handler):      *)
(* one request is validated, one upstream lookup per surviving identifier   *)
(* is started, each lookup races its own abort timer, and the response is   *)
(* assembled by Promise.all once every lookup has settled.                  *)
(*                                                                         *)
(* Strings the code splits, trims or tests character by character are      *)
(* sequences of one-character strings; strings the code only copies or     *)
(* compares are TLA+ strings.  An absent string property and the empty     *)
(* string are both falsy in every place the code reads one, so an absent    *)
(* property of a raw record is read as the empty string.                    *)
(***************************************************************************)
EXTENDS Integers, Sequences, FiniteSets, TLC

\* ------------------------------------------------------------------ bounds
\* Longest candidate list of the validation scenarios.
MaxCandidates == 2
\* Largest batch of the scenarios that range over every upstream behaviour.
MaxLookups == 2
\* Valid identifiers supplied beyond MAX_NPIS in the truncation scenarios.
MaxExtra == 1

\* --------------------------------------------------------------- constants
MAX_NPIS == 10

Digits == {"0", "1", "2", "3", "4", "5", "6", "7", "8", "9"}

\* Characters String.prototype.trim removes (the ones the inputs use).
WhiteSpace == {" ", "\t"}

DigitChar == <<"0", "1", "2", "3", "4", "5", "6", "7", "8", "9">>

Min(a, b) == IF a < b THEN a ELSE b

\* ------------------------------------------------------ string primitives
\* The position of the k-th comma of s; 0 before the first, Len(s) + 1 after
\* the last.
CommaAt(s, k) ==
    LET commas == {i \in 1..Len(s) : s[i] = ","}
    IN  IF k = 0 THEN 0
        ELSE IF k > Cardinality(commas) THEN Len(s) + 1
        ELSE CHOOSE i \in commas : Cardinality({j \in commas : j < i}) = k - 1

\* npiParam.split(','): the pieces between commas, empty pieces included.
Split(s) ==
    [k \in 1..(Cardinality({i \in 1..Len(s) : s[i] = ","}) + 1) |->
        SubSeq(s, CommaAt(s, k - 1) + 1, CommaAt(s, k) - 1)]

RECURSIVE TrimStart(_)
TrimStart(s) ==
    IF s # <<>> /\ Head(s) \in WhiteSpace THEN TrimStart(Tail(s)) ELSE s

RECURSIVE TrimEnd(_)
TrimEnd(s) ==
    IF s # <<>> /\ s[Len(s)] \in WhiteSpace
    THEN TrimEnd(SubSeq(s, 1, Len(s) - 1))
    ELSE s

\* n.trim()
Trim(s) == TrimEnd(TrimStart(s))

\* /^\d+$/.test(n)
AllDigits(n) == Len(n) >= 1 /\ \A i \in 1..Len(n) : n[i] \in Digits

\* Mutant: the filter checks the length only.
IsValidNpiLengthOnly(n) == Len(n) = 10

\* The filter predicate of the handler: n.length === 10 && /^\d+$/.test(n)
IsValidNpi(n) == Len(n) = 10 /\ AllDigits(n)

MapTrim(pieces) == [i \in 1..Len(pieces) |-> Trim(pieces[i])]

\* .slice(0, MAX_NPIS)
SliceMax(list) == SubSeq(list, 1, Min(Len(list), MAX_NPIS))

\* Mutant: the truncation is forgotten.
ParseNpiListNoSlice(chars) == SelectSeq(MapTrim(Split(chars)), IsValidNpi)

\* Mutant: candidates are filtered without being trimmed first.
ParseNpiListNoTrim(chars) == SliceMax(SelectSeq(Split(chars), IsValidNpi))

\* npiParam.split(',').map(trim).filter(valid).slice(0, MAX_NPIS)
ParseNpiList(chars) == SliceMax(SelectSeq(MapTrim(Split(chars)), IsValidNpi))

\* ------------------------------------------------------- record normalizer
\* The object literal {}: no property is present.
EmptyObject == [f \in {} |-> ""]

\* A string property of a raw object; absent reads as "" (both are falsy).
Field(obj, f) == IF f \in DOMAIN obj THEN obj[f] ELSE ""

\* A name part of the basic bag (a character sequence); absent reads as <<>>.
NamePart(obj, f) == IF f \in DOMAIN obj THEN obj[f] ELSE <<>>

\* x || 'N/A' for a string property
OrNA(x) == IF x # "" THEN x ELSE "N/A"

NAChars == <<"N", "/", "A">>

\* result.taxonomies || []  and  result.addresses || []  (an absent array
\* reads as the empty array; a present value is [isArray, items]).
ArrayOf(result, f) == IF f \in DOMAIN result THEN result[f].items ELSE <<>>

\* Array.prototype.find is called on a value that is no array: TypeError.
ProcessThrows(result) ==
    \/ "taxonomies" \in DOMAIN result /\ ~result["taxonomies"].isArray
    \/ "addresses" \in DOMAIN result /\ ~result["addresses"].isArray

\* arr.find(pred): the first element satisfying pred, here by index set.
FirstIndex(arr, holds) ==
    IF holds = {} THEN 0 ELSE CHOOSE i \in holds : \A j \in holds : i <= j

\* Mutant: without a primary entry the placeholder is used at once.
SelectTaxonomyPrimaryOnly(taxonomies) ==
    LET prim == {i \in 1..Len(taxonomies) :
                    "primary" \in DOMAIN taxonomies[i] /\ taxonomies[i]["primary"] = TRUE}
    IN  IF prim # {} THEN taxonomies[FirstIndex(taxonomies, prim)] ELSE EmptyObject

\* taxonomies.find(t => t.primary === true) || taxonomies[0] || {}
SelectTaxonomy(taxonomies) ==
    LET prim == {i \in 1..Len(taxonomies) :
                    "primary" \in DOMAIN taxonomies[i] /\ taxonomies[i]["primary"] = TRUE}
    IN  IF prim # {} THEN taxonomies[FirstIndex(taxonomies, prim)]
        ELSE IF Len(taxonomies) > 0 THEN taxonomies[1]
        ELSE EmptyObject

WithPurpose(addresses, purpose) ==
    {i \in 1..Len(addresses) : Field(addresses[i], "address_purpose") = purpose}

\* Mutant: the MAILING step of the chain is skipped.
SelectAddressNoMailing(addresses) ==
    IF WithPurpose(addresses, "LOCATION") # {}
    THEN addresses[FirstIndex(addresses, WithPurpose(addresses, "LOCATION"))]
    ELSE IF Len(addresses) > 0 THEN addresses[1]
    ELSE EmptyObject

\* find LOCATION || find MAILING || addresses[0] || {}
SelectAddress(addresses) ==
    IF WithPurpose(addresses, "LOCATION") # {}
    THEN addresses[FirstIndex(addresses, WithPurpose(addresses, "LOCATION"))]
    ELSE IF WithPurpose(addresses, "MAILING") # {}
    THEN addresses[FirstIndex(addresses, WithPurpose(addresses, "MAILING"))]
    ELSE IF Len(addresses) > 0 THEN addresses[1]
    ELSE EmptyObject

RECURSIVE JoinComma(_)
\* parts.join(', ')
JoinComma(parts) ==
    IF Len(parts) = 0 THEN ""
    ELSE IF Len(parts) = 1 THEN parts[1]
    ELSE parts[1] \o ", " \o JoinComma(Tail(parts))

Push(parts, cond, x) == IF cond THEN Append(parts, x) ELSE parts

\* Mutant: the parts are joined whether or not there is a street line.
FormatAddressNoStreetTest(a) ==
    LET a1 == Field(a, "address_1")
        a2 == Field(a, "address_2")
        city == Field(a, "city")
        st == Field(a, "state")
        zip == Field(a, "postal_code")
        p1 == Push(<<>>, a1 # "", a1)
        p2 == Push(p1, a2 # "", a2)
        p3 == Push(p2, city # "", city)
        p4 == IF st # "" /\ zip # ""
              THEN Append(p3, st \o " " \o zip)
              ELSE Push(Push(p3, st # "", st), zip # "", zip)
    IN  IF Len(p4) > 0 THEN JoinComma(p4) ELSE "N/A"

FormatAddress(a) ==
    LET a1 == Field(a, "address_1")
        a2 == Field(a, "address_2")
        city == Field(a, "city")
        st == Field(a, "state")
        zip == Field(a, "postal_code")
        p1 == Push(<<>>, a1 # "", a1)
        p2 == Push(p1, a2 # "", a2)
        p3 == Push(p2, city # "", city)
        p4 == IF st # "" /\ zip # ""
              THEN Append(p3, st \o " " \o zip)
              ELSE Push(Push(p3, st # "", st), zip # "", zip)
    IN  IF a1 # "" THEN (IF Len(p4) > 0 THEN JoinComma(p4) ELSE "N/A") ELSE "N/A"

\* The timestamps the raw records use that Date can parse, with their long
\* en-US rendering (the server's time zone taken as UTC).
KnownDates == [d \in {"2007-07-08", "2020-01-15"} |->
                 IF d = "2007-07-08" THEN "July 8, 2007" ELSE "January 15, 2020"]

\* new Date(raw).toLocaleDateString('en-US', {year, month: 'long', day}):
\* an unparsable string gives an invalid Date, which renders without throwing.
ToLocaleDateString(raw) ==
    IF raw \in DOMAIN KnownDates THEN KnownDates[raw] ELSE "Invalid Date"

\* Whether the try block around the date formatting throws: neither the
\* Date constructor nor toLocaleDateString throws on a string, parsable or
\* not, with the fixed locale and options of the call.
DateFormattingThrows(raw) == FALSE

\* try { lastUpdated = raw ? format(raw) : 'N/A' } catch { raw || 'N/A' }
FormatLastUpdated(basic) ==
    LET raw == Field(basic, "last_updated")
    IN  IF raw = "" THEN "N/A"
        ELSE IF DateFormattingThrows(raw) THEN OrNA(raw)
        ELSE ToLocaleDateString(raw)

IndividualName(basic) ==
    LET prefix == NamePart(basic, "name_prefix")
        first == NamePart(basic, "first_name")
        middle == NamePart(basic, "middle_name")
        last == NamePart(basic, "last_name")
    IN  IF prefix # <<>> \/ first # <<>> \/ last # <<>>
        THEN Trim(prefix \o <<" ">> \o first \o <<" ">>
                  \o (IF middle # <<>> THEN middle \o <<" ">> ELSE <<>>) \o last)
        ELSE NAChars

OrganizationName(basic) ==
    IF NamePart(basic, "organization_name") # <<>>
    THEN NamePart(basic, "organization_name")
    ELSE NAChars

\* Mutant: the sex code is mapped for organizations too.
MapSexAnyEntity(isIndividual, basic) ==
    LET sex == Field(basic, "sex")
    IN  IF sex # ""
        THEN (IF sex = "F" THEN "Female" ELSE IF sex = "M" THEN "Male" ELSE sex)
        ELSE "N/A"

MapSex(isIndividual, basic) ==
    LET sex == Field(basic, "sex")
    IN  IF isIndividual /\ sex # ""
        THEN (IF sex = "F" THEN "Female" ELSE IF sex = "M" THEN "Male" ELSE sex)
        ELSE "N/A"

\* Mutant: the normalizer forgets to fill in licenseState.
ProcessNpiResultNoLicenseState(npi, result) ==
    LET isIndividual == Field(result, "enumeration_type") = "NPI-1"
        basic == IF "basic" \in DOMAIN result THEN result["basic"] ELSE EmptyObject
        taxonomy == SelectTaxonomy(ArrayOf(result, "taxonomies"))
        primaryAddress == SelectAddress(ArrayOf(result, "addresses"))
    IN  [npi |-> npi,
         name |-> IF isIndividual THEN IndividualName(basic) ELSE OrganizationName(basic),
         entityType |-> IF isIndividual THEN "Individual" ELSE "Organization",
         sex |-> MapSex(isIndividual, basic),
         specialty |-> OrNA(Field(taxonomy, "desc")),
         license |-> OrNA(Field(taxonomy, "license")),
         phone |-> OrNA(Field(primaryAddress, "telephone_number")),
         fax |-> OrNA(Field(primaryAddress, "fax_number")),
         address |-> FormatAddress(primaryAddress),
         lastUpdated |-> FormatLastUpdated(basic)]

\* processNpiResult(npi, result), for a result it does not throw on.
ProcessNpiResult(npi, result) ==
    LET isIndividual == Field(result, "enumeration_type") = "NPI-1"
        basic == IF "basic" \in DOMAIN result THEN result["basic"] ELSE EmptyObject
        taxonomy == SelectTaxonomy(ArrayOf(result, "taxonomies"))
        primaryAddress == SelectAddress(ArrayOf(result, "addresses"))
    IN  [npi |-> npi,
         name |-> IF isIndividual THEN IndividualName(basic) ELSE OrganizationName(basic),
         entityType |-> IF isIndividual THEN "Individual" ELSE "Organization",
         sex |-> MapSex(isIndividual, basic),
         specialty |-> OrNA(Field(taxonomy, "desc")),
         license |-> OrNA(Field(taxonomy, "license")),
         licenseState |-> OrNA(Field(taxonomy, "state")),
         phone |-> OrNA(Field(primaryAddress, "telephone_number")),
         fax |-> OrNA(Field(primaryAddress, "fax_number")),
         address |-> FormatAddress(primaryAddress),
         lastUpdated |-> FormatLastUpdated(basic)]

\* ---------------------------------------------------------- one lookup
\* The per-identifier error record of fetchNpiData's catch block.
CatchRecord(npi, errName) ==
    [npi |-> npi,
     error |-> IF errName = "AbortError" THEN "Request timed out"
               ELSE "Failed to retrieve provider data"]

Fulfilled(record) == [st |-> "fulfilled", value |-> record]

Rejected == [st |-> "rejected"]

Pending == [st |-> "pending"]

\* Mutant: the catch block logs the error and rethrows it.
FetchCatchRethrow(npi, errName) == Rejected

\* Mutant: every caught error is reported as the generic failure.
FetchCatchGeneric(npi, errName) ==
    Fulfilled([npi |-> npi, error |-> "Failed to retrieve provider data"])

\* catch (err) { return { npi, error: ... } }: the lookup's promise fulfils
\* with the error record.
FetchCatch(npi, errName) == Fulfilled(CatchRecord(npi, errName))

\* JSON null as an element of the results array.
JsonNull == [null |-> TRUE]

\* data.results?.[0] is undefined or falsy.
NoFirstResult(body) ==
    \/ "results" \notin DOMAIN body
    \/ Len(body["results"]) = 0
    \/ body["results"][1] = JsonNull

\* fetchNpiData from `await response.json()` on, once the body has arrived:
\* an unparsable body rejects (SyntaxError), a null payload throws on
\* data.results (TypeError), a missing first result is 'Not found', and the
\* normalizer's result or exception decides the rest.
AfterJson(npi, body) ==
    IF body.json = "unparsable" THEN FetchCatch(npi, "SyntaxError")
    ELSE IF body.json = "null" THEN FetchCatch(npi, "TypeError")
    ELSE IF NoFirstResult(body) THEN Fulfilled([npi |-> npi, error |-> "Not found"])
    ELSE IF ProcessThrows(body["results"][1]) THEN FetchCatch(npi, "TypeError")
    ELSE Fulfilled(ProcessNpiResult(npi, body["results"][1]))

\* response.ok
IsOk(status) == status >= 200 /\ status <= 299

\* Mutant: Promise.all collects the values in the order they arrive.
PromiseAllStoreArrival(vals, i, v) ==
    LET free == {k \in 1..Len(vals) : vals[k] = Pending}
    IN  [vals EXCEPT ![FirstIndex(vals, free)] = v]

\* Promise.all stores the value of the i-th promise at index i.
PromiseAllStore(vals, i, v) == [vals EXCEPT ![i] = v]

\* ------------------------------------------------------------ environment
\* Raw registry records the upstream may answer with.
RawIndividual ==
    [enumeration_type |-> "NPI-1",
     basic |-> [name_prefix |-> <<"D", "r", ".">>, first_name |-> <<"A", "n", "n">>,
                last_name |-> <<"L", "e", "e">>, sex |-> "F",
                last_updated |-> "2007-07-08"],
     taxonomies |-> [isArray |-> TRUE,
                     items |-> <<[desc |-> "Nurse", license |-> "RN1", state |-> "TX"],
                                 [desc |-> "Internal Medicine", primary |-> TRUE,
                                  license |-> "MD123", state |-> "IL"]>>],
     addresses |-> [isArray |-> TRUE,
                    items |-> <<[address_purpose |-> "MAILING", address_1 |-> "PO Box 9",
                                 city |-> "Chicago", state |-> "IL"],
                                [address_purpose |-> "LOCATION", address_1 |-> "123 Main St",
                                 city |-> "Springfield", state |-> "IL",
                                 postal_code |-> "62704",
                                 telephone_number |-> "217-555-0100"]>>]]

RawOrganization ==
    [enumeration_type |-> "NPI-2",
     basic |-> [organization_name |-> <<"A", "c", "m", "e">>, sex |-> "M",
                last_updated |-> "not a date"],
     taxonomies |-> [isArray |-> TRUE, items |-> <<>>],
     addresses |-> [isArray |-> TRUE,
                    items |-> <<[address_purpose |-> "MAILING", city |-> "Springfield",
                                 fax_number |-> "217-555-0199"]>>]]

\* A result whose taxonomies property is an object, not an array.
RawBadTaxonomies ==
    [enumeration_type |-> "NPI-1", taxonomies |-> [isArray |-> FALSE, items |-> <<>>]]

RawRecords == {RawIndividual, RawOrganization, EmptyObject, RawBadTaxonomies}

\* What the body of a 2xx answer turns out to be.
Bodies ==
    {[json |-> "stall"], [json |-> "unparsable"], [json |-> "null"], [json |-> "object"],
     [json |-> "object", results |-> <<>>], [json |-> "object", results |-> <<JsonNull>>]}
    \cup {[json |-> "object", results |-> <<r>>] : r \in RawRecords}

Hang == [kind |-> "hang"]

NetworkError == [kind |-> "neterr"]

Http(status, body) == [kind |-> "http", status |-> status, body |-> body]

\* What the registry does with one lookup: it never answers, the connection
\* fails, it answers with an error status, or it answers 200 with some body.
Behaviours ==
    {Hang, NetworkError, Http(500, [json |-> "unparsable"]),
     Http(404, [json |-> "object", results |-> <<>>])}
    \cup {Http(200, b) : b \in Bodies}

AnswerWith(raw) == Http(200, [json |-> "object", results |-> <<raw>>])

Methods == {"GET", "POST", "OPTIONS"}

\* The k-th test identifier: ten decimal digits.
NpiOf(k) == <<"1", "4", "1", "7", "0", "0", "5", "4", DigitChar[(k \div 10) + 1], DigitChar[(k % 10) + 1]>>

\* A candidate as the client wrote it: a core with white space around it,
\* and whether the core is a ten-digit identifier.
Candidate(pre, core, post, isNpi) == [pre |-> pre, core |-> core, post |-> post, isNpi |-> isNpi]

Plain(k) == Candidate(<<>>, NpiOf(k), <<>>, TRUE)

Bad == Candidate(<<>>, <<"b", "a", "d">>, <<>>, FALSE)

CandidateSet ==
    {Plain(1), Plain(2), Candidate(<<" ">>, NpiOf(3), <<" ", "\t">>, TRUE), Bad,
     Candidate(<<>>, SubSeq(NpiOf(4), 1, 9), <<>>, FALSE),
     Candidate(<<>>, NpiOf(5) \o <<"6">>, <<>>, FALSE),
     Candidate(<<" ">>, SubSeq(NpiOf(6), 1, 9) \o <<"x">>, <<>>, FALSE),
     Candidate(<<>>, <<>>, <<>>, FALSE)}

RECURSIVE SeqsUpTo(_, _)
\* The sequences over S of length at most n.
SeqsUpTo(S, n) ==
    IF n = 0 THEN {<<>>}
    ELSE LET shorter == SeqsUpTo(S, n - 1)
         IN  shorter \cup {Append(q, x) : q \in {r \in shorter : Len(r) = n - 1}, x \in S}

RECURSIVE JoinCandidates(_)
\* The query string value: the candidates joined by commas.
JoinCandidates(cs) ==
    IF Len(cs) = 0 THEN <<>>
    ELSE LET text == cs[1].pre \o cs[1].core \o cs[1].post
         IN  IF Len(cs) = 1 THEN text ELSE text \o <<",">> \o JoinCandidates(Tail(cs))

StringParam(cs) == [type |-> "string", chars |-> JoinCandidates(cs)]

\* The same behaviour for every lookup.
Uniform(b) == [i \in 1..MAX_NPIS |-> b]

\* Behaviours bs for the first lookups, Hang for the rest.
FirstThenHang(bs) == [i \in 1..MAX_NPIS |-> IF i <= Len(bs) THEN bs[i] ELSE Hang]

PlainRun(n) == [i \in 1..n |-> Plain(i)]

\* n identifiers with an invalid candidate written after the second.
RunWithBad(n) == <<Plain(1), Plain(2), Bad>> \o [i \in 1..(n - 2) |-> Plain(i + 2)]

\* ------------------------------------------------------------------ state
VARIABLES
    method,        \* req.method
    npiParam,      \* req.query.npi: undefined, an array, or a string
    candidates,    \* the candidates the query string was written from
    upstream,      \* what the registry does with the i-th lookup
    pc,            \* the handler: "start", "awaiting" (Promise.all), "done"
    npiList,       \* the validated, truncated identifier list
    phase,         \* per lookup: "fetching", "json" or "settled"
    timer,         \* per lookup: the abort timer, "armed", "cleared" or "fired"
    values,        \* Promise.all's array of settled values
    requests,      \* the identifiers upstream requests were issued for
    responses,     \* the responses sent on res
    firstSettled,  \* the index of the lookup that settled first (0: none yet)
    settledBy,     \* per lookup: the event that settled it ("none": in flight)
    rawInput,      \* normalizer alone: the raw registry record handed to it
    normalized,    \* normalizer alone: the DisplayRecord it returned
    npiInputs,     \* form: the NPI fields (position k is index k - 1 of the code)
    results,       \* form: the result cards
    isLoading,     \* form: a lookup is in flight
    error,         \* form: the batch-level error message
    inputErrors,   \* form: the per-field error messages, by field position
    submitted,     \* form: the non-empty fields of the lookup last sent
    cleared        \* form: Clear All ran and nothing was edited or submitted since

vars == <<method, npiParam, candidates, upstream, pc, npiList, phase, timer, values,
          requests, responses, firstSettled, settledBy, rawInput, normalized,
          npiInputs, results, isLoading, error, inputErrors, submitted, cleared>>

normalizer == <<rawInput, normalized>>

form == <<npiInputs, results, isLoading, error, inputErrors, submitted, cleared>>

\* No DisplayRecord has been returned.
NotNormalized == [none |-> TRUE]

\* The normalizer is not part of the run.
NormalizerIdle == rawInput = EmptyObject /\ normalized = NotNormalized

\* The state of Home after construction (the useState initial values).
FormInit ==
    /\ npiInputs = << <<>> >>
    /\ results = <<>>
    /\ isLoading = FALSE
    /\ error = ""
    /\ inputErrors = <<>>
    /\ submitted = <<>>
    /\ cleared = FALSE

request == <<method, npiParam, candidates, upstream>>

lookups == <<phase, timer, values, firstSettled, settledBy>>

\* Every short candidate list, under every method, the registry answering
\* every lookup alike.
ValidationScenarios ==
    /\ method \in Methods
    /\ candidates \in SeqsUpTo(CandidateSet, MaxCandidates)
    /\ npiParam = StringParam(candidates)
    /\ upstream \in {Uniform(AnswerWith(RawOrganization)), Uniform(NetworkError)}

\* npi missing, or given more than once (Next.js then passes an array).
NonStringScenarios ==
    /\ method \in Methods
    /\ candidates = <<>>
    /\ npiParam \in {[type |-> "undefined"], [type |-> "array"]}
    /\ upstream = Uniform(Hang)

\* A short batch of valid identifiers, every lookup under every behaviour.
UpstreamScenarios ==
    /\ method = "GET"
    /\ \E n \in 1..MaxLookups :
          /\ candidates = PlainRun(n)
          /\ \E bs \in [1..n -> Behaviours] : upstream = FirstThenHang(bs)
    /\ npiParam = StringParam(candidates)

\* More valid identifiers than MAX_NPIS.
TruncationScenarios ==
    /\ method = "GET"
    /\ \E e \in 1..MaxExtra :
          candidates \in {PlainRun(MAX_NPIS + e), RunWithBad(MAX_NPIS + e)}
    /\ npiParam = StringParam(candidates)
    /\ upstream = FirstThenHang(<<AnswerWith(RawIndividual), AnswerWith(RawOrganization)>>)

Init ==
    /\ \/ ValidationScenarios
       \/ NonStringScenarios
       \/ UpstreamScenarios
       \/ TruncationScenarios
    /\ pc = "start"
    /\ npiList = <<>>
    /\ phase = <<>>
    /\ timer = <<>>
    /\ values = <<>>
    /\ requests = <<>>
    /\ responses = <<>>
    /\ firstSettled = 0
    /\ settledBy = <<>>
    /\ NormalizerIdle
    /\ FormInit

\* Mutant: the method check is missing.
MethodAllowedAny(m) == TRUE

\* req.method === 'GET'
MethodAllowed(m) == m = "GET"

\* !npiParam || typeof npiParam !== 'string'
MissingOrNotString(p) == IF p.type # "string" THEN TRUE ELSE p.chars = <<>>

\* res.status(status).json(body)
Send(status, body) == responses' = Append(responses, [status |-> status, body |-> body])

\* ---------------------------------------------------------------- handler
\* if (req.method !== 'GET') return 405
HandlerMethodNotAllowed ==
    /\ pc = "start"
    /\ ~MethodAllowed(method)
    /\ Send(405, [error |-> "Method not allowed"])
    /\ pc' = "done"
    /\ UNCHANGED <<normalizer, form, request, npiList, lookups, requests>>

\* if (!npiParam || typeof npiParam !== 'string') return 400
HandlerMissingParam ==
    /\ pc = "start"
    /\ MethodAllowed(method)
    /\ MissingOrNotString(npiParam)
    /\ Send(400, [error |-> "Missing or invalid NPI parameter"])
    /\ pc' = "done"
    /\ UNCHANGED <<normalizer, form, request, npiList, lookups, requests>>

\* if (npiList.length === 0) return 400
HandlerNoValidNpi ==
    /\ pc = "start"
    /\ MethodAllowed(method)
    /\ ~MissingOrNotString(npiParam)
    /\ ParseNpiList(npiParam.chars) = <<>>
    /\ Send(400, [error |-> "No valid NPI numbers provided"])
    /\ pc' = "done"
    /\ UNCHANGED <<normalizer, form, request, npiList, lookups, requests>>

\* npiList.map(fetchNpiData): every fetchNpiData runs to its `await fetch`,
\* arming its timer and issuing its request, before the handler suspends on
\* Promise.all.
HandlerDispatch ==
    /\ pc = "start"
    /\ MethodAllowed(method)
    /\ ~MissingOrNotString(npiParam)
    /\ ParseNpiList(npiParam.chars) # <<>>
    /\ npiList' = ParseNpiList(npiParam.chars)
    /\ phase' = [i \in 1..Len(npiList') |-> "fetching"]
    /\ timer' = [i \in 1..Len(npiList') |-> "armed"]
    /\ values' = [i \in 1..Len(npiList') |-> Pending]
    /\ settledBy' = [i \in 1..Len(npiList') |-> "none"]
    /\ requests' = npiList'
    /\ pc' = "awaiting"
    /\ UNCHANGED <<normalizer, form, request, responses, firstSettled>>

\* The promise of lookup i settles with `outcome`, on event `event`.
Settle(i, outcome, event) ==
    /\ phase' = [phase EXCEPT ![i] = "settled"]
    /\ settledBy' = [settledBy EXCEPT ![i] = event]
    /\ values' = PromiseAllStore(values, i, outcome)
    /\ firstSettled' = IF firstSettled = 0 THEN i ELSE firstSettled

\* `await fetch(url, ...)` resolves with the response headers: the timer is
\* cleared, and a status that is not ok throws into the catch block.
FetchResolves(i) ==
    /\ i \in DOMAIN phase
    /\ phase[i] = "fetching"
    /\ upstream[i].kind = "http"
    /\ timer' = [timer EXCEPT ![i] = "cleared"]
    /\ IF IsOk(upstream[i].status)
       THEN /\ phase' = [phase EXCEPT ![i] = "json"]
            /\ UNCHANGED <<values, firstSettled, settledBy>>
       ELSE Settle(i, FetchCatch(npiList[i], "Error"), "status")
    /\ UNCHANGED <<normalizer, form, request, pc, npiList, requests, responses>>

\* `await fetch` rejects with a network error: clearTimeout is skipped.
FetchRejects(i) ==
    /\ i \in DOMAIN phase
    /\ phase[i] = "fetching"
    /\ upstream[i].kind = "neterr"
    /\ Settle(i, FetchCatch(npiList[i], "TypeError"), "network")
    /\ UNCHANGED <<normalizer, form, request, pc, npiList, timer, requests, responses>>

\* The timer callback: controller.abort().  A fetch still pending rejects
\* with an AbortError; on a lookup already settled the abort has no effect.
TimerFires(i) ==
    /\ i \in DOMAIN timer
    /\ timer[i] = "armed"
    /\ timer' = [timer EXCEPT ![i] = "fired"]
    /\ IF phase[i] = "fetching"
       THEN Settle(i, FetchCatch(npiList[i], "AbortError"), "deadline")
       ELSE UNCHANGED <<phase, values, firstSettled, settledBy>>
    /\ UNCHANGED <<normalizer, form, request, pc, npiList, requests, responses>>

\* `await response.json()` settles: the body has arrived.
BodyArrives(i) ==
    /\ i \in DOMAIN phase
    /\ phase[i] = "json"
    /\ upstream[i].body.json # "stall"
    /\ Settle(i, AfterJson(npiList[i], upstream[i].body), "body")
    /\ UNCHANGED <<normalizer, form, request, pc, npiList, timer, requests, responses>>

\* Mutant: the handler answers as soon as one lookup has settled, with the
\* records produced so far.
HandlerRespondEarly ==
    /\ pc = "awaiting"
    /\ \E i \in DOMAIN phase : phase[i] = "settled"
    /\ Send(200, [results |-> SelectSeq(values, LAMBDA v : v.st = "fulfilled")])
    /\ pc' = "done"
    /\ UNCHANGED <<normalizer, form, request, npiList, lookups, requests>>

\* Promise.all settles: it rejects as soon as one promise has rejected
\* (catch: 500) and fulfils once every promise has fulfilled (200).
HandlerRespond ==
    /\ pc = "awaiting"
    /\ \/ \E i \in DOMAIN values : values[i] = Rejected
       \/ \A i \in DOMAIN phase : phase[i] = "settled"
    /\ IF \E i \in DOMAIN values : values[i] = Rejected
       THEN Send(500, [error |-> "Internal server error"])
       ELSE Send(200, [results |-> [i \in DOMAIN values |-> values[i].value]])
    /\ pc' = "done"
    /\ UNCHANGED <<normalizer, form, request, npiList, lookups, requests>>

Next ==
    \/ HandlerMethodNotAllowed
    \/ HandlerMissingParam
    \/ HandlerNoValidNpi
    \/ HandlerDispatch
    \/ \E i \in 1..MAX_NPIS : FetchResolves(i)
    \/ \E i \in 1..MAX_NPIS : FetchRejects(i)
    \/ \E i \in 1..MAX_NPIS : TimerFires(i)
    \/ \E i \in 1..MAX_NPIS : BodyArrives(i)
    \/ HandlerRespond

Spec == Init /\ [][Next]_vars

\* The runtime runs every ready continuation and every due timer callback,
\* and the registry does with each lookup what `upstream` says: it answers
\* unless it hangs, and the body arrives unless it stalls.
FairSpec ==
    /\ Spec
    /\ WF_vars(HandlerMethodNotAllowed \/ HandlerMissingParam \/ HandlerNoValidNpi)
    /\ WF_vars(HandlerDispatch)
    /\ WF_vars(HandlerRespond)
    /\ \A i \in 1..MAX_NPIS :
          /\ WF_vars(TimerFires(i))
          /\ WF_vars(FetchResolves(i))
          /\ WF_vars(FetchRejects(i))
          /\ WF_vars(BodyArrives(i))

\* ------------------------------------------------------------- properties
\* The handler has answered 200.
Answered200 == pc = "done" /\ Len(responses) = 1 /\ responses[1].status = 200

\* The records of the 200 response.
ResultsSent == responses[1].body.results

\* The identifiers of a record list.
NpisOf(records) == [i \in 1..Len(records) |-> records[i].npi]

\* The identifiers the client wrote that are ten decimal digits, in the
\* order written (from how the query string was built, not from the parser).
WrittenValid ==
    LET valid == SelectSeq(candidates, LAMBDA c : c.isNpi)
    IN  [i \in 1..Len(valid) |-> valid[i].core]

FirstMax(list) == SubSeq(list, 1, Min(Len(list), MAX_NPIS))

IsErrorRecord(r) == "error" \in DOMAIN r

DisplayFields ==
    {"name", "entityType", "sex", "specialty", "license", "licenseState", "phone", "fax",
     "address", "lastUpdated"}

\* C1: in the 200 response there is exactly one record per surviving
\* identifier and the record at position i carries the identifier at
\* position i of the surviving list, whichever lookup settled first.
C1_ResultsInInputOrder ==
    Answered200 => NpisOf(ResultsSent) = npiList

\* C1 witness: a 200 response of a batch in which a later lookup settled
\* before the first one.
C1_LaterLookupSettledFirst ==
    Answered200 /\ Len(npiList) >= 2 /\ firstSettled > 1

\* C2 as stated: the records of a 200 response are one per syntactically
\* valid identifier of the npi parameter, in the same order.
C2_OneRecordPerValidIdentifier ==
    Answered200 => NpisOf(ResultsSent) = WrittenValid

\* C2 amended: the records of a 200 response are one per syntactically
\* valid identifier, in the same order, for the first MAX_NPIS of them only.
C2_OneRecordPerValidIdentifierUpToMax ==
    Answered200 => NpisOf(ResultsSent) = FirstMax(WrittenValid)

\* C2 witness: a 200 response to a parameter with a padded valid candidate
\* and a candidate that is dropped.
C2_MixedCandidatesAnswered ==
    /\ Answered200
    /\ \E i \in DOMAIN candidates : ~candidates[i].isNpi
    /\ \E i \in DOMAIN candidates : candidates[i].isNpi /\ candidates[i].pre # <<>>

\* C3: an upstream request is only ever issued for a written ten-digit
\* identifier, and a GET whose npi parameter is missing, not a string or
\* without a surviving candidate is answered 400 with an error body and no
\* upstream request.
C3_InvalidDroppedBeforeAnyRequest ==
    /\ \A k \in DOMAIN requests : \E j \in DOMAIN WrittenValid : requests[k] = WrittenValid[j]
    /\ (method = "GET" /\ (npiParam.type # "string" \/ WrittenValid = <<>>)) =>
          /\ requests = <<>>
          /\ pc = "done" =>
                /\ Len(responses) = 1
                /\ responses[1].status = 400
                /\ DOMAIN responses[1].body = {"error"}

\* C3 witness: a GET whose candidates were all dropped has been answered.
C3_AllCandidatesDropped ==
    /\ pc = "done"
    /\ method = "GET"
    /\ Len(candidates) >= 2
    /\ WrittenValid = <<>>
    /\ responses[1].status = 400

\* C4: with more than MAX_NPIS valid identifiers, requests are issued for,
\* and records returned for, exactly the first MAX_NPIS valid identifiers in
\* their order; at no time are there more than MAX_NPIS requests.
C4_OnlyFirstMaxProcessed ==
    /\ Len(requests) <= MAX_NPIS
    /\ Len(WrittenValid) > MAX_NPIS =>
          /\ pc # "start" => requests = FirstMax(WrittenValid)
          /\ \A k \in DOMAIN requests :
                \A j \in (MAX_NPIS + 1)..Len(WrittenValid) : requests[k] # WrittenValid[j]
          /\ Answered200 => NpisOf(ResultsSent) = FirstMax(WrittenValid)

\* C4 witness: a batch of more than MAX_NPIS valid identifiers was answered.
C4_LongBatchAnswered ==
    /\ Answered200
    /\ Len(WrittenValid) > MAX_NPIS
    /\ Len(ResultsSent) = MAX_NPIS
    /\ Len(requests) = MAX_NPIS

GenericFailure == "Failed to retrieve provider data"

\* The promise value lookup j reaches when only its own registry answer
\* decides it (no deadline, no sibling).
OwnAnswer(npi, b) ==
    IF b.kind = "http" /\ IsOk(b.status) THEN AfterJson(npi, b.body)
    ELSE Fulfilled([npi |-> npi, error |-> GenericFailure])

\* C5: a validated batch is never answered with anything but 200; every
\* settled lookup holds a record of its own identifier that is either its
\* own timeout record or the record its own registry answer gives, whatever
\* happened to the other lookups.
C5_FailuresStayIsolated ==
    /\ (pc = "done" /\ npiList # <<>>) => Answered200
    /\ \A j \in DOMAIN phase :
          phase[j] = "settled" =>
             /\ values[j].st = "fulfilled"
             /\ values[j].value.npi = npiList[j]
             /\ \/ settledBy[j] = "deadline"
                   /\ values[j].value = [npi |-> npiList[j], error |-> "Request timed out"]
                \/ settledBy[j] # "deadline"
                   /\ values[j] = OwnAnswer(npiList[j], upstream[j])
    /\ Answered200 =>
          \A j \in DOMAIN npiList : ResultsSent[j] = values[j].value

\* C5 witness: the first lookup timed out, the second succeeded, and the
\* 200 response carries the timeout record first and the full record second.
C5_TimeoutBesideSuccess ==
    /\ Answered200
    /\ Len(ResultsSent) = 2
    /\ ResultsSent[1] = [npi |-> npiList[1], error |-> "Request timed out"]
    /\ ~IsErrorRecord(ResultsSent[2])
    /\ ResultsSent[2].entityType = "Individual"

\* A 2xx answer whose payload parsed to an object.
AnsweredObject(j) ==
    /\ settledBy[j] = "body"
    /\ upstream[j].body.json = "object"

\* The tag for everything that is neither the deadline nor 'Not found'.
TagOr(j, notFound) ==
    IF settledBy[j] = "deadline" THEN "Request timed out"
    ELSE IF notFound THEN "Not found"
    ELSE GenericFailure

\* C6 as stated: the tag of an error record is 'Request timed out' exactly
\* when the deadline aborted the lookup, 'Not found' exactly when the
\* registry answered successfully with an empty or missing results
\* collection, and the generic failure otherwise.
C6_TagByFailureKind ==
    \A j \in DOMAIN phase :
       (phase[j] = "settled" /\ IsErrorRecord(values[j].value)) =>
          values[j].value.error =
             TagOr(j, /\ AnsweredObject(j)
                      /\ \/ "results" \notin DOMAIN upstream[j].body
                         \/ upstream[j].body["results"] = <<>>)

\* C6 amended: as C6, with 'Not found' exactly when the registry answered
\* successfully with a payload that has no first result record: the results
\* collection is missing or empty, or its first entry is null.
C6_TagByFailureKindNullFirst ==
    \A j \in DOMAIN phase :
       (phase[j] = "settled" /\ IsErrorRecord(values[j].value)) =>
          values[j].value.error =
             TagOr(j, /\ AnsweredObject(j)
                      /\ \/ "results" \notin DOMAIN upstream[j].body
                         \/ upstream[j].body["results"] = <<>>
                         \/ upstream[j].body["results"][1] = JsonNull)

\* C6 witness: a response carries the timeout tag beside a 'Not found' that
\* came from a results collection whose first entry is null.
C6_TimeoutBesideNullFirst ==
    /\ Answered200
    /\ \E j \in DOMAIN ResultsSent :
          /\ settledBy[j] = "deadline"
          /\ ResultsSent[j] = [npi |-> npiList[j], error |-> "Request timed out"]
    /\ \E j \in DOMAIN ResultsSent :
          /\ settledBy[j] = "body"
          /\ upstream[j].body = [json |-> "object", results |-> <<JsonNull>>]
          /\ ResultsSent[j] = [npi |-> npiList[j], error |-> "Not found"]

\* C7: every validated batch eventually sends its response, whatever the
\* registry does.
C7_EveryBatchIsAnswered == (pc = "awaiting") ~> (pc = "done")

\* C7, the deadline itself: a lookup that has not settled still has its
\* abort timer armed.
C7_UnsettledLookupHasDeadline ==
    \A j \in DOMAIN phase : phase[j] # "settled" => timer[j] = "armed"

\* C8: every record of a 200 response is an error record (identifier and
\* error tag, no display field) or a success record (identifier and all ten
\* display fields, no error tag).
C8_ErrorOrFullRecord ==
    Answered200 =>
       \A j \in DOMAIN ResultsSent :
          \/ DOMAIN ResultsSent[j] = {"npi", "error"}
          \/ DOMAIN ResultsSent[j] = {"npi"} \cup DisplayFields

\* C8 witness: a 200 response with an error record and a success record.
C8_BothShapesSent ==
    /\ Answered200
    /\ \E j \in DOMAIN ResultsSent : IsErrorRecord(ResultsSent[j])
    /\ \E j \in DOMAIN ResultsSent : ResultsSent[j].npi = npiList[j] /\ ~IsErrorRecord(ResultsSent[j])

\* C9: at most one response is sent, the handler is done exactly when it
\* has sent one, and no response exists while a lookup of the batch is
\* still in flight.
C9_OneResponseAfterAllSettled ==
    /\ Len(responses) <= 1
    /\ pc = "done" <=> Len(responses) = 1
    /\ (\E j \in DOMAIN phase : phase[j] # "settled") => responses = <<>>

\* C9 witness: a batch of two was answered after both lookups settled, the
\* second one first.
C9_AnsweredAfterBothSettled ==
    /\ pc = "done"
    /\ Len(responses) = 1
    /\ Len(npiList) = 2
    /\ firstSettled = 2
    /\ \A j \in DOMAIN phase : phase[j] = "settled"

\* C10: a request whose method is not GET is answered 405 with an error
\* body whatever its query, its npi parameter is never parsed and no
\* upstream request is issued for it.
C10_NonGetIsRejected ==
    method # "GET" =>
       /\ requests = <<>>
       /\ npiList = <<>>
       /\ pc = "done" =>
             /\ Len(responses) = 1
             /\ responses[1].status = 405
             /\ DOMAIN responses[1].body = {"error"}

\* C10 witness: a POST carrying valid identifiers has been answered 405.
C10_PostWithValidIdentifiers ==
    /\ pc = "done"
    /\ method = "POST"
    /\ WrittenValid # <<>>
    /\ responses[1].status = 405

\* ============================================================ normalizer
\* processNpiResult on its own: a raw record is drawn and normalized once.

\* Longest taxonomy sequence and longest address sequence of the inputs.
MaxTaxonomies == 3

MaxAddresses == 3

\* The handler is not part of the run (the browser has sent nothing).
HandlerIdle ==
    /\ method = "GET"
    /\ npiParam = [type |-> "undefined"]
    /\ candidates = <<>>
    /\ upstream = Uniform(Hang)
    /\ pc = "idle"
    /\ npiList = <<>>
    /\ phase = <<>>
    /\ timer = <<>>
    /\ values = <<>>
    /\ requests = <<>>
    /\ responses = <<>>
    /\ firstSettled = 0
    /\ settledBy = <<>>

Tag(prefix, i) == prefix \o DigitChar[i + 1]

\* The taxonomy entry written at position i: flagged primary, flagged not
\* primary, without a flag, or without a flag and with a description only.
TaxonomyKinds == {"primary", "notPrimary", "unflagged", "bare"}

TaxonomyAt(i, kind) ==
    IF kind = "bare" THEN [desc |-> Tag("Specialty ", i)]
    ELSE IF kind = "unflagged"
    THEN [desc |-> Tag("Specialty ", i), license |-> Tag("LIC", i), state |-> Tag("S", i)]
    ELSE [desc |-> Tag("Specialty ", i), license |-> Tag("LIC", i), state |-> Tag("S", i),
          primary |-> (kind = "primary")]

\* The address entry written at position i: one of three purposes with a
\* street, a city, a phone and a fax of its own, or an entry with a city only.
AddressKinds == {"LOCATION", "MAILING", "PRIMARY", "bare"}

AddressAt(i, kind) ==
    IF kind = "bare" THEN [city |-> Tag("City ", i)]
    ELSE [address_purpose |-> kind, address_1 |-> Tag("Main St ", i),
          city |-> Tag("City ", i), telephone_number |-> Tag("555-010", i),
          fax_number |-> Tag("555-020", i)]

KindSeqs(kinds, n) == UNION {[1..k -> kinds] : k \in 0..n}

BasicOf(fields) == [enumeration_type |-> "NPI-1", basic |-> fields]

AsArray(items) == [isArray |-> TRUE, items |-> items]

\* Records that differ in their taxonomies (one has no taxonomies property).
TaxonomyInputs ==
    {[enumeration_type |-> "NPI-1",
      taxonomies |-> AsArray([i \in DOMAIN ks |-> TaxonomyAt(i, ks[i])])] :
        ks \in KindSeqs(TaxonomyKinds, MaxTaxonomies)}
    \cup {[enumeration_type |-> "NPI-1"]}

\* Records that differ in their addresses (one has no addresses property).
AddressInputs ==
    {[enumeration_type |-> "NPI-2",
      addresses |-> AsArray([i \in DOMAIN ks |-> AddressAt(i, ks[i])])] :
        ks \in KindSeqs(AddressKinds, MaxAddresses)}
    \cup {[enumeration_type |-> "NPI-2"]}

\* The object with the properties of `full` whose names are in `present`.
Restrict(full, present) == [f \in present |-> full[f]]

FullAddress ==
    [address_1 |-> "123 Main St", address_2 |-> "Suite 4", city |-> "Springfield",
     state |-> "IL", postal_code |-> "62704"]

\* Records with one address in which every subset of the five parts is
\* present, and the same with an empty street line.
FormatInputs ==
    {[enumeration_type |-> "NPI-2", addresses |-> AsArray(<<Restrict(FullAddress, present)>>)] :
        present \in SUBSET DOMAIN FullAddress}
    \cup {[enumeration_type |-> "NPI-2",
           addresses |-> AsArray(<<[Restrict(FullAddress, present) EXCEPT !["address_1"] = ""]>>)] :
              present \in {q \in SUBSET DOMAIN FullAddress : "address_1" \in q}}

EntityCodes == {"NPI-1", "NPI-2", ""}

SexCodes == {"F", "M", "X", "f", ""}

\* Records that differ in entity type and sex code (absent or present).
SexInputs ==
    {[enumeration_type |-> t, basic |-> [sex |-> x]] : t \in EntityCodes, x \in SexCodes}
    \cup {[enumeration_type |-> t, basic |-> EmptyObject] : t \in EntityCodes}
    \cup {[basic |-> [sex |-> x]] : x \in SexCodes}

LastUpdatedValues == {"2007-07-08", "2020-01-15", "not a date", "2020-13-45", ""}

\* Records that differ in the last-updated value (absent or present).
DateInputs ==
    {BasicOf([last_updated |-> d]) : d \in LastUpdatedValues}
    \cup {BasicOf(EmptyObject), [enumeration_type |-> "NPI-1"]}

NormalizerInputs == TaxonomyInputs \cup AddressInputs \cup FormatInputs \cup SexInputs \cup DateInputs

NormalizerInit ==
    /\ rawInput \in NormalizerInputs
    /\ normalized = NotNormalized
    /\ HandlerIdle
    /\ FormInit

\* processNpiResult(npi, result) is called and returns.
Normalize ==
    /\ normalized = NotNormalized
    /\ ~ProcessThrows(rawInput)
    /\ normalized' = ProcessNpiResult(NpiOf(1), rawInput)
    /\ UNCHANGED <<rawInput, form, request, pc, npiList, lookups, requests, responses>>

NormalizerNext == Normalize

NormalizerSpec == NormalizerInit /\ [][NormalizerNext]_vars

Normalized == normalized # NotNormalized

\* The basic bag of the input, {} when absent.
InputBasic == IF "basic" \in DOMAIN rawInput THEN rawInput["basic"] ELSE EmptyObject

\* C11: an unparsable last-updated value is rendered as the raw string, an
\* absent or empty one as 'N/A', and only a parsable one as a formatted date.
C11_UnparsableDateFallsBackToRaw ==
    Normalized =>
       LET present == "last_updated" \in DOMAIN InputBasic /\ InputBasic["last_updated"] # ""
           parsable == present /\ InputBasic["last_updated"] \in {"2007-07-08", "2020-01-15"}
       IN  /\ ~present => normalized.lastUpdated = "N/A"
           /\ (present /\ ~parsable) => normalized.lastUpdated = InputBasic["last_updated"]
           /\ normalized.lastUpdated \in {"July 8, 2007", "January 15, 2020"} <=> parsable

\* The address and taxonomy sequences of the input, empty when absent.
InputAddresses ==
    IF "addresses" \in DOMAIN rawInput THEN rawInput["addresses"].items ELSE <<>>

InputTaxonomies ==
    IF "taxonomies" \in DOMAIN rawInput THEN rawInput["taxonomies"].items ELSE <<>>

PurposeAt(i) == Field(InputAddresses[i], "address_purpose")

\* Entry i is the first one with the given purpose.
FirstWithPurpose(i, purpose) ==
    PurposeAt(i) = purpose /\ \A j \in 1..(i - 1) : PurposeAt(j) # purpose

NoneWithPurpose(purpose) == \A j \in DOMAIN InputAddresses : PurposeAt(j) # purpose

\* Entry i is the one the fallback chain of the claim selects.
AddressChosen(i) ==
    \/ FirstWithPurpose(i, "LOCATION")
    \/ NoneWithPurpose("LOCATION") /\ FirstWithPurpose(i, "MAILING")
    \/ NoneWithPurpose("LOCATION") /\ NoneWithPurpose("MAILING") /\ i = 1

\* The address line the claim describes for one address entry.
AddressLine(a) ==
    LET a1 == Field(a, "address_1")
        a2 == Field(a, "address_2")
        city == Field(a, "city")
        st == Field(a, "state")
        zip == Field(a, "postal_code")
    IN  IF a1 = "" THEN "N/A"
        ELSE a1 \o (IF a2 # "" THEN ", " \o a2 ELSE "")
                \o (IF city # "" THEN ", " \o city ELSE "")
                \o (IF st # "" /\ zip # "" THEN ", " \o st \o " " \o zip
                    ELSE IF st # "" THEN ", " \o st
                    ELSE IF zip # "" THEN ", " \o zip
                    ELSE "")

\* C12: phone, fax and address all come from one entry: the first LOCATION,
\* else the first MAILING, else the first entry; with no entry all are 'N/A'.
C12_AddressFallbackChain ==
    Normalized =>
       /\ InputAddresses = <<>> =>
             /\ normalized.phone = "N/A"
             /\ normalized.fax = "N/A"
             /\ normalized.address = "N/A"
       /\ \A i \in DOMAIN InputAddresses :
             AddressChosen(i) =>
                /\ normalized.phone = OrNA(Field(InputAddresses[i], "telephone_number"))
                /\ normalized.fax = OrNA(Field(InputAddresses[i], "fax_number"))
                /\ normalized.address = AddressLine(InputAddresses[i])
       /\ InputAddresses # <<>> => \E i \in DOMAIN InputAddresses : AddressChosen(i)

\* C12 witness: no LOCATION entry, and the MAILING entry in third place
\* supplied phone, fax and address.
C12_MailingEntryChosen ==
    /\ Normalized
    /\ Len(InputAddresses) = 3
    /\ NoneWithPurpose("LOCATION")
    /\ FirstWithPurpose(3, "MAILING")
    /\ normalized.phone = "555-0103"
    /\ normalized.fax = "555-0203"
    /\ normalized.address = "Main St 3, City 3"

IsPrimary(i) ==
    "primary" \in DOMAIN InputTaxonomies[i] /\ InputTaxonomies[i]["primary"] = TRUE

\* Entry i is the taxonomy the claim selects.
TaxonomyChosen(i) ==
    \/ IsPrimary(i) /\ \A j \in 1..(i - 1) : ~IsPrimary(j)
    \/ i = 1 /\ \A j \in DOMAIN InputTaxonomies : ~IsPrimary(j)

\* C13: specialty, license and licenseState all come from one entry: the
\* first one flagged primary, else the first entry; with no entry all three
\* are 'N/A'.
C13_TaxonomyPrimaryElseFirst ==
    Normalized =>
       /\ InputTaxonomies = <<>> =>
             /\ normalized.specialty = "N/A"
             /\ normalized.license = "N/A"
             /\ normalized.licenseState = "N/A"
       /\ \A i \in DOMAIN InputTaxonomies :
             TaxonomyChosen(i) =>
                /\ normalized.specialty = OrNA(Field(InputTaxonomies[i], "desc"))
                /\ normalized.license = OrNA(Field(InputTaxonomies[i], "license"))
                /\ normalized.licenseState = OrNA(Field(InputTaxonomies[i], "state"))
       /\ InputTaxonomies # <<>> => \E i \in DOMAIN InputTaxonomies : TaxonomyChosen(i)

\* C13 witness: no entry is flagged primary and the first of three entries,
\* which has a description only, supplied all three fields.
C13_FirstEntryChosen ==
    /\ Normalized
    /\ Len(InputTaxonomies) = 3
    /\ \A j \in DOMAIN InputTaxonomies : ~IsPrimary(j)
    /\ DOMAIN InputTaxonomies[1] = {"desc"}
    /\ "license" \in DOMAIN InputTaxonomies[2]
    /\ normalized.specialty = "Specialty 1"
    /\ normalized.license = "N/A"
    /\ normalized.licenseState = "N/A"

\* C14: for a record with one address the formatted address is 'N/A' when
\* street line 1 is absent or empty, and otherwise the ', '-join of street
\* line 1, street line 2, city and 'STATE POSTAL' (or the one of the two
\* that is present), each only if present.
C14_AddressFormatting ==
    (Normalized /\ Len(InputAddresses) = 1) =>
       /\ normalized.address = AddressLine(InputAddresses[1])
       /\ Field(InputAddresses[1], "address_1") = "" => normalized.address = "N/A"
       /\ InputAddresses[1] = [city |-> "Springfield"] => normalized.address = "N/A"
       /\ InputAddresses[1] = Restrict(FullAddress, {"address_1", "city", "state", "postal_code"})
             => normalized.address = "123 Main St, Springfield, IL 62704"

\* C14 witness: the address of the claim's example was formatted.
C14_ExampleFormatted ==
    /\ Normalized
    /\ InputAddresses =
          <<[address_1 |-> "123 Main St", city |-> "Springfield", state |-> "IL",
             postal_code |-> "62704"]>>
    /\ normalized.address = "123 Main St, Springfield, IL 62704"

\* C15: for an Individual record 'F' maps to 'Female', 'M' to 'Male', any
\* other non-empty code to itself and an empty or absent code to 'N/A'; for
\* any other entity type sex is 'N/A'.
C15_SexMapping ==
    Normalized =>
       LET code == Field(InputBasic, "sex")
           individual == "enumeration_type" \in DOMAIN rawInput
                            /\ rawInput["enumeration_type"] = "NPI-1"
       IN  /\ individual <=> normalized.entityType = "Individual"
           /\ ~individual => normalized.entityType = "Organization" /\ normalized.sex = "N/A"
           /\ (individual /\ code = "F") => normalized.sex = "Female"
           /\ (individual /\ code = "M") => normalized.sex = "Male"
           /\ (individual /\ code = "") => normalized.sex = "N/A"
           /\ (individual /\ code \notin {"F", "M", ""}) => normalized.sex = code

\* C15 witness: an Organization record with sex code 'M' was normalized.
C15_OrganizationWithSexCode ==
    /\ Normalized
    /\ rawInput = [enumeration_type |-> "NPI-2", basic |-> [sex |-> "M"]]
    /\ normalized.sex = "N/A"

\* ------------------------------------------------------------------- form
\* Most fields the user adds.
MaxFields == 3

\* The handler's part of the state.
server == <<request, pc, npiList, lookups, requests, responses>>

\* What the user types or pastes into a field: nothing, three digits, an
\* identifier, and two values the field refuses (a letter, eleven digits).
TypedValues ==
    {<<>>, <<"1", "2", "3">>, NpiOf(1), <<"1", "2", "a">>, NpiOf(1) \o <<"0">>}

\* value === '' || (/^\d+$/.test(value) && value.length <= 10)
AcceptsValue(value) == value = <<>> \/ (AllDigits(value) /\ Len(value) <= 10)

\* delete newErrors[index]
DeleteKey(errors, k) == [j \in (DOMAIN errors) \ {k} |-> errors[j]]

\* newInputs.splice(index, 1)
Splice(inputs, k) == SubSeq(inputs, 1, k - 1) \o SubSeq(inputs, k + 1, Len(inputs))

\* validateInputs: the error map it builds.
ValidateInputs(inputs) ==
    [k \in {j \in DOMAIN inputs : Trim(inputs[j]) # <<>> /\ Len(inputs[j]) # 10}
        |-> "NPI must be 10 digits"]

\* npiInputs.filter(npi => npi.trim() !== '')
ValidNpis(inputs) == SelectSeq(inputs, LAMBDA npi : Trim(npi) # <<>>)

\* addNpiField
AddNpiField ==
    /\ npiInputs' = Append(npiInputs, <<>>)
    /\ inputErrors' = <<>>
    /\ cleared' = FALSE
    /\ UNCHANGED <<results, isLoading, error, submitted>>

\* removeNpiField(index): the button is rendered for index > 0 only.
RemoveNpiField(k) ==
    /\ k \in DOMAIN npiInputs
    /\ k > 1
    /\ IF Len(npiInputs) > 1
       THEN /\ npiInputs' = Splice(npiInputs, k)
            /\ inputErrors' = DeleteKey(inputErrors, k)
       ELSE UNCHANGED <<npiInputs, inputErrors>>
    /\ cleared' = FALSE
    /\ UNCHANGED <<results, isLoading, error, submitted>>

\* updateNpiValue(index, value): a refused value changes nothing.
UpdateNpiValue(k, value) ==
    /\ k \in DOMAIN npiInputs
    /\ IF AcceptsValue(value)
       THEN /\ npiInputs' = [npiInputs EXCEPT ![k] = value]
            /\ inputErrors' = IF k \in DOMAIN inputErrors
                              THEN DeleteKey(inputErrors, k)
                              ELSE inputErrors
            /\ cleared' = FALSE
       ELSE UNCHANGED <<npiInputs, inputErrors, cleared>>
    /\ UNCHANGED <<results, isLoading, error, submitted>>

\* handleSubmit up to `await fetch`: validateInputs, the empty-form check,
\* then the loading flag.  The button is disabled while isLoading.
SubmitForm ==
    /\ ~isLoading
    /\ inputErrors' = ValidateInputs(npiInputs)
    /\ cleared' = FALSE
    /\ IF DOMAIN ValidateInputs(npiInputs) # {}
       THEN UNCHANGED <<results, isLoading, error, submitted>>
       ELSE IF ValidNpis(npiInputs) = <<>>
       THEN /\ error' = "Please enter at least one NPI number"
            /\ UNCHANGED <<results, isLoading, submitted>>
       ELSE /\ isLoading' = TRUE
            /\ error' = ""
            /\ submitted' = ValidNpis(npiInputs)
            /\ UNCHANGED results
    /\ UNCHANGED npiInputs

\* The fetch of handleSubmit failed.
FetchFailed == [kind |-> "neterr"]

\* What the form can get back for the identifiers it sent.
Replies(sent) ==
    {FetchFailed,
     Http(500, [error |-> "Internal server error"]),
     Http(400, [error |-> "No valid NPI numbers provided"]),
     Http(200, [error |-> "Internal server error"]),
     Http(200, EmptyObject),
     Http(200, [results |-> [i \in 1..Min(Len(sent), MAX_NPIS) |->
                                ProcessNpiResult(sent[i], RawIndividual)]])}

\* handleSubmit after `await fetch`: the error message and the result list
\* it sets (results is left as shown when setResults is not called).
ShownAfter(reply, shown) ==
    IF reply.kind = "neterr" \/ ~IsOk(reply.status)
    THEN [error |-> "Failed to fetch NPI data. Please try again.", results |-> <<>>]
    ELSE IF "error" \in DOMAIN reply.body
    THEN [error |-> reply.body.error, results |-> <<>>]
    ELSE IF "results" \in DOMAIN reply.body
    THEN [error |-> error, results |-> reply.body.results]
    ELSE [error |-> "Invalid response format from server", results |-> <<>>]

\* The continuation of handleSubmit: try, catch and finally.
HandleResponse(reply) ==
    /\ isLoading
    /\ error' = ShownAfter(reply, results).error
    /\ results' = ShownAfter(reply, results).results
    /\ isLoading' = FALSE
    /\ UNCHANGED <<npiInputs, inputErrors, submitted, cleared>>

\* clearAll, from Clear All or New Search (rendered when there is more than
\* one field or a result).
ClearAll ==
    /\ Len(npiInputs) > 1 \/ Len(results) > 0
    /\ npiInputs' = << <<>> >>
    /\ results' = <<>>
    /\ error' = ""
    /\ inputErrors' = <<>>
    /\ cleared' = TRUE
    /\ UNCHANGED <<isLoading, submitted>>

\* The form alone: its lookups are answered by some server.
AddField == Len(npiInputs) < MaxFields /\ AddNpiField /\ UNCHANGED <<normalizer, server>>

RemoveField == \E k \in 1..MaxFields : RemoveNpiField(k) /\ UNCHANGED <<normalizer, server>>

EditField ==
    \E k \in 1..MaxFields, value \in TypedValues :
       UpdateNpiValue(k, value) /\ UNCHANGED <<normalizer, server>>

HandleSubmit == SubmitForm /\ UNCHANGED <<normalizer, server>>

ResponseArrives ==
    \E reply \in Replies(submitted) : HandleResponse(reply) /\ UNCHANGED <<normalizer, server>>

ClearForm == ClearAll /\ UNCHANGED <<normalizer, server>>

FormNext ==
    \/ AddField
    \/ RemoveField
    \/ EditField
    \/ HandleSubmit
    \/ ResponseArrives
    \/ ClearForm

FormSpecInit == HandlerIdle /\ NormalizerIdle /\ FormInit

FormSpec == FormSpecInit /\ [][FormNext]_vars

\* C16: every key of the per-field error map is a position of the current
\* field list, and the field there is non-empty with a length other than 10.
C16_ErrorKeysAreInvalidFields ==
    \A k \in DOMAIN inputErrors :
       /\ k \in DOMAIN npiInputs
       /\ npiInputs[k] # <<>>
       /\ Len(npiInputs[k]) # 10

\* C17: whenever the batch-level error message is non-empty the result list
\* is empty.
C17_ErrorImpliesNoResults == error # "" => results = <<>>

\* C18: from Clear All or New Search until the next edit or submit, the
\* results and the batch error are empty and the field list is one empty
\* field, also when a lookup response arrives in between.
C18_ClearedStaysCleared ==
    cleared => results = <<>> /\ error = "" /\ npiInputs = << <<>> >>

\* ------------------------------------------------------------- end to end
\* encodeURIComponent over a string of digits and commas: a digit stands for
\* itself and a comma becomes the escape %2C (one unit of the encoded text).
EncodeURIComponent(chars) ==
    [i \in 1..Len(chars) |-> IF chars[i] = "," THEN "%2C" ELSE chars[i]]

\* The query-string decoding that produces req.query.npi.
DecodeQuery(units) ==
    [i \in 1..Len(units) |-> IF units[i] = "%2C" THEN "," ELSE units[i]]

\* validNpis as the items of the joined string.
AsWritten(npis) == [k \in 1..Len(npis) |-> Candidate(<<>>, npis[k], <<>>, TRUE)]

\* fetch(`/api/fetchNpi?npi=${encodeURIComponent(validNpis.join(','))}`): a
\* GET request reaches the handler; the registry answers its first lookup
\* and leaves the others to their timers.
BrowserSends(npis) ==
    /\ method' = "GET"
    /\ candidates' = AsWritten(npis)
    /\ npiParam' = [type |-> "string",
                    chars |-> DecodeQuery(EncodeURIComponent(JoinCandidates(AsWritten(npis))))]
    /\ upstream' = FirstThenHang(<<AnswerWith(RawIndividual)>>)
    /\ pc' = "start"
    /\ npiList' = <<>>
    /\ phase' = <<>>
    /\ timer' = <<>>
    /\ values' = <<>>
    /\ requests' = <<>>
    /\ responses' = <<>>
    /\ firstSettled' = 0
    /\ settledBy' = <<>>

\* The response of the handler as handleSubmit receives it.
ReplyOf(res) == Http(res.status, res.body)

\* A user who fills the last field with the next identifier and then adds
\* another field, while no lookup is in flight.
UserAddsField ==
    /\ ~isLoading
    /\ npiInputs[Len(npiInputs)] # <<>>
    /\ Len(npiInputs) < MAX_NPIS + MaxExtra
    /\ AddNpiField
    /\ UNCHANGED <<normalizer, server>>

UserFillsField ==
    /\ ~isLoading
    /\ npiInputs[Len(npiInputs)] = <<>>
    /\ UpdateNpiValue(Len(npiInputs), NpiOf(Len(npiInputs)))
    /\ UNCHANGED <<normalizer, server>>

\* handleSubmit, for the first lookup of the session.
LookupSent ==
    /\ submitted = <<>>
    /\ SubmitForm
    /\ IF isLoading' THEN BrowserSends(submitted') ELSE UNCHANGED server
    /\ UNCHANGED normalizer

\* The handler's response reaches the continuation of handleSubmit.
LookupAnswered ==
    /\ pc = "done"
    /\ HandleResponse(ReplyOf(responses[1]))
    /\ UNCHANGED <<normalizer, server>>

EndToEndNext ==
    \/ UserAddsField
    \/ UserFillsField
    \/ LookupSent
    \/ HandlerDispatch
    \/ \E i \in 1..MAX_NPIS : FetchResolves(i)
    \/ \E i \in 1..MAX_NPIS : TimerFires(i)
    \/ \E i \in 1..MAX_NPIS : BodyArrives(i)
    \/ HandlerRespond
    \/ LookupAnswered

EndToEndSpec == FormSpecInit /\ [][EndToEndNext]_vars

\* C19: when a 200 response reaches the form, there are as many result
\* cards as non-empty fields were submitted, and card i shows the
\* identifier of the i-th of them, however many fields there are.
C19_CardPerSubmittedField ==
    [][(isLoading /\ ~isLoading' /\ pc = "done" /\ responses[1].status = 200)
          => /\ Len(results') = Len(submitted)
             /\ \A i \in DOMAIN submitted : results'[i].npi = submitted[i]]_vars

====
